---- MODULE Spec2Model ----
(***************************************************************************)
(* Model of src/src/enhanced_whitespace_cleaner.py: the WhitespaceCleaner  *)
(* window (text buffer, option widgets, undo/redo history and its          *)
(* handlers) and the WatermarkScanThread worker.                           *)
(*                                                                         *)
(* A text is a sequence of characters; a character is a one-element name:  *)
(* "a", "b" are word characters, SPACE/TAB/NL the ASCII whitespace, and    *)
(* "U+XXXX" the code point of that number.                                 *)
(***************************************************************************)
EXTENDS Integers, Sequences, FiniteSets, TLC

VARIABLES
    input_text,      \* self.input_text (the current text buffer)
    output_text,     \* self.output_text (the rendered text)
    stats_label,     \* self.stats_label (spaces, tabs, newlines of the buffer)
    status_bar,      \* self.status_bar's message
    detailed_stats,  \* self.detailed_stats (the displayed scan report)
    progress_bar,    \* self.progress_bar.isVisible()
    options,         \* the option widgets (check boxes, combo box, line edits)
    history,         \* self.history
    history_index,   \* self.history_index, kept 0-based as in the source
    thread,          \* self.thread (the WatermarkScanThread and its locals)
    queue,           \* finished(dict) emissions queued to the main thread
    event,           \* history variable: the handler run last and its return path
    undone           \* history variable: the buffer the last applied undo
                     \* replaced, and the event that undo came after

vars == <<input_text, output_text, stats_label, status_bar, detailed_stats,
          progress_bar, options, history, history_index, thread, queue, event,
          undone>>

-----------------------------------------------------------------------------
(* Bounds of the model *)

MaxLen == 3      \* longest text drawn for the cleaning pipeline and the scan
MaxRender == 2   \* longest text drawn for the renderer (full alphabet)
MaxHist == 2     \* most history entries kept by the interactive specification
MaxQueue == 2    \* most finished() emissions waiting for the main thread

-----------------------------------------------------------------------------
(* Characters *)

SPACE == " "
TAB == "\t"
NL == "\n"

MIDDLE_DOT == "U+00B7"
RIGHT_ARROW == "U+2192"
PILCROW == "U+00B6"
DIAMOND == "U+25C6"
REFERENCE_MARK == "U+203B"

\* the character class compiled in WatermarkScanThread.run
unicode_pattern ==
    {"U+200B", "U+200C", "U+200D", "U+202F", "U+00A0", "U+2060", "U+FEFF",
     "U+2014", "U+2013"}

\* the character class detect_whitespace hands to re.sub
detect_pattern ==
    {"U+200B", "U+200C", "U+200D", "U+202F", "U+00A0", "U+2060", "U+FEFF",
     "U+2014", "U+2013"}

\* the character class of the remove_invisible rule
invisible_pattern ==
    {"U+200B", "U+200C", "U+200D", "U+202F", "U+00A0", "U+2060", "U+FEFF",
     "U+2014", "U+2013"}

\* what \s and str.strip() take for whitespace among the modelled characters
\* (Python's str patterns are Unicode: U+00A0 and U+202F are whitespace)
space_class == {SPACE, TAB, NL, "U+00A0", "U+202F"}

IsSpace(c) == c \in space_class

\* what \w matches among the modelled characters
word_class == {"a", "b", "A"}

IsWord(c) == c \in word_class

-----------------------------------------------------------------------------
(* str and re helpers *)

\* text.replace(c, repl) for a one-character c
RECURSIVE Replace(_, _, _)
Replace(text, c, repl) ==
    IF text = <<>> THEN <<>>
    ELSE (IF Head(text) = c THEN repl ELSE <<Head(text)>>)
         \o Replace(Tail(text), c, repl)

\* re.sub('[class]', repl, text)
RECURSIVE SubClass(_, _, _)
SubClass(class, repl, text) ==
    IF text = <<>> THEN <<>>
    ELSE (IF Head(text) \in class THEN repl ELSE <<Head(text)>>)
         \o SubClass(class, repl, Tail(text))

\* the text after its longest prefix of characters of class
RECURSIVE DropRun(_, _)
DropRun(class, text) ==
    IF text # <<>> /\ Head(text) \in class THEN DropRun(class, Tail(text))
    ELSE text

\* re.sub('[class]+', repl, text): every maximal run becomes repl
RECURSIVE SubRuns(_, _, _)
SubRuns(class, repl, text) ==
    IF text = <<>> THEN <<>>
    ELSE IF Head(text) \in class
         THEN repl \o SubRuns(class, repl, DropRun(class, text))
         ELSE <<Head(text)>> \o SubRuns(class, repl, Tail(text))

\* str.splitlines(): NL ends a line, and a final NL opens no further line
RECURSIVE splitlines(_)
splitlines(text) ==
    IF text = <<>> THEN <<>>
    ELSE LET ends == {i \in 1..Len(text) : text[i] = NL}
         IN IF ends = {} THEN <<text>>
            ELSE LET k == CHOOSE i \in ends : \A j \in ends : i <= j
                 IN <<SubSeq(text, 1, k - 1)>>
                    \o splitlines(SubSeq(text, k + 1, Len(text)))

\* str.strip()
strip(line) ==
    LET keep == {i \in 1..Len(line) : ~IsSpace(line[i])}
    IN IF keep = {} THEN <<>>
       ELSE LET lo == CHOOSE i \in keep : \A j \in keep : i <= j
                hi == CHOOSE i \in keep : \A j \in keep : j <= i
            IN SubSeq(line, lo, hi)

\* sep.join(lines)
RECURSIVE join(_, _)
join(sep, lines) ==
    IF lines = <<>> THEN <<>>
    ELSE IF Len(lines) = 1 THEN Head(lines)
    ELSE Head(lines) \o sep \o join(sep, Tail(lines))

StripEach(lines) == [i \in 1..Len(lines) |-> strip(lines[i])]

\* re.compile(pattern) for the patterns of the model: a pattern is a sequence
\* of characters in which "[" opens a character class that the next "]" after
\* at least one member closes; every other character stands for itself.
\* A class that is never closed is re.error ("unterminated character set").
RECURSIVE compile(_)
compile(pattern) ==
    IF pattern = <<>> THEN [error |-> FALSE, atoms |-> <<>>]
    ELSE IF Head(pattern) = "["
    THEN LET closes == {j \in 3..Len(pattern) : pattern[j] = "]"}
         IN IF closes = {} THEN [error |-> TRUE, atoms |-> <<>>]
            ELSE LET k == CHOOSE i \in closes : \A j \in closes : i <= j
                     rest == compile(SubSeq(pattern, k + 1, Len(pattern)))
                 IN [error |-> rest.error,
                     atoms |-> <<{pattern[i] : i \in 2..(k - 1)}>> \o rest.atoms]
    ELSE LET rest == compile(Tail(pattern))
         IN [error |-> rest.error, atoms |-> <<{Head(pattern)}>> \o rest.atoms]

\* the compiled pattern matches at the start of text
MatchesAt(atoms, text) ==
    /\ Len(atoms) <= Len(text)
    /\ \A i \in 1..Len(atoms) : text[i] \in atoms[i]

\* pattern.sub(repl, text) for a compiled, non-empty pattern: leftmost
\* non-overlapping matches are replaced
RECURSIVE sub(_, _, _)
sub(atoms, repl, text) ==
    IF text = <<>> THEN <<>>
    ELSE IF MatchesAt(atoms, text)
         THEN repl \o sub(atoms, repl, SubSeq(text, Len(atoms) + 1, Len(text)))
         ELSE <<Head(text)>> \o sub(atoms, repl, Tail(text))

\* " " * n
RECURSIVE Spaces(_)
Spaces(n) == IF n = 0 THEN <<>> ELSE <<SPACE>> \o Spaces(n - 1)

-----------------------------------------------------------------------------
(* WhitespaceCleaner.detect_whitespace: the rendering *)

replace_invisible(char) ==
    IF char = "U+202F" THEN REFERENCE_MARK
    ELSE IF char \in {"U+200B", "U+FEFF"} THEN DIAMOND
    ELSE char

visible_text(text) ==
    LET spaces == Replace(text, SPACE, <<MIDDLE_DOT>>)
        tabs == Replace(spaces, TAB, <<RIGHT_ARROW>>)
        newlines == Replace(tabs, NL, <<PILCROW, NL>>)
    IN [i \in 1..Len(newlines) |->
           IF newlines[i] \in detect_pattern
           THEN replace_invisible(newlines[i]) ELSE newlines[i]]

\* update_stats: the three counts shown in stats_label
Count(text, c) == Cardinality({i \in 1..Len(text) : text[i] = c})

label(text) ==
    [spaces |-> Count(text, SPACE), tabs |-> Count(text, TAB),
     newlines |-> Count(text, NL)]

-----------------------------------------------------------------------------
(* WhitespaceCleaner.clean_whitespace: the cleaning rules *)

\* the rules with replace_tabs applied ahead of remove_tabs
standard_cleaning_expand_first(text, o) ==
    LET t1 == IF o.remove_spaces
              THEN SubRuns(space_class, <<SPACE>>, text)
              ELSE text
        t2 == IF o.replace_tabs THEN Replace(t1, TAB, Spaces(o.tab_spaces)) ELSE t1
        t3 == IF o.remove_tabs THEN Replace(t2, TAB, <<>>) ELSE t2
        t4 == IF o.remove_newlines THEN SubRuns({NL}, <<NL>>, t3) ELSE t3
        t5 == IF o.trim_lines THEN join(<<NL>>, StripEach(splitlines(t4))) ELSE t4
    IN IF o.remove_invisible THEN SubClass(invisible_pattern, <<SPACE>>, t5) ELSE t5

\* the rules ahead of the custom regex, in the order of the source
standard_cleaning(text, o) ==
    LET t1 == IF o.remove_spaces
              THEN SubRuns(space_class, <<SPACE>>, text)
              ELSE text
        t2 == IF o.remove_tabs THEN Replace(t1, TAB, <<>>) ELSE t1
        t3 == IF o.replace_tabs THEN Replace(t2, TAB, Spaces(o.tab_spaces)) ELSE t2
        t4 == IF o.remove_newlines THEN SubRuns({NL}, <<NL>>, t3) ELSE t3
        t5 == IF o.trim_lines THEN join(<<NL>>, StripEach(splitlines(t4))) ELSE t4
    IN IF o.remove_invisible THEN SubClass(invisible_pattern, <<SPACE>>, t5) ELSE t5

\* the custom regex with re.error swallowed and the clean carried on
custom_regex_swallowed(text, o) ==
    IF o.regex_input = <<>> THEN [error |-> FALSE, text |-> text]
    ELSE LET c == compile(o.regex_input)
         IN IF c.error THEN [error |-> FALSE, text |-> text]
            ELSE [error |-> FALSE, text |-> sub(c.atoms, o.regex_replace, text)]

\* the custom regex: [error |-> re.error was raised, text |-> the result]
custom_regex(text, o) ==
    IF o.regex_input = <<>> THEN [error |-> FALSE, text |-> text]
    ELSE LET c == compile(o.regex_input)
         IN IF c.error THEN [error |-> TRUE, text |-> text]
            ELSE [error |-> FALSE, text |-> sub(c.atoms, o.regex_replace, text)]

\* the history appended to without the slice
save_to_history_untruncated(h, index, original_text) ==
    Append(h, original_text)

\* "Save to history": self.history[:self.history_index + 1] + [original_text]
save_to_history(h, index, original_text) ==
    Append(SubSeq(h, 1, index + 1), original_text)

\* the index moved one too far
recorded_index_past_end(index) == index + 2

\* self.history_index += 1
recorded_index(index) == index + 1

\* self.history[self.history_index], the list being 0-based
entry(h, index) == h[index + 1]

\* the guard of undo, off by one
can_undo_above_one(index) == index > 1

\* the guard of undo
can_undo(index) == index > 0

\* the guard of redo
can_redo(h, index) == index < Len(h) - 1

-----------------------------------------------------------------------------
(* WatermarkScanThread.run *)

MaxDetails == 10

unicode_name(char) ==
    CASE char = "U+200B" -> "ZERO WIDTH SPACE"
      [] char = "U+200C" -> "ZERO WIDTH NON-JOINER"
      [] char = "U+200D" -> "ZERO WIDTH JOINER"
      [] char = "U+202F" -> "NARROW NO-BREAK SPACE"
      [] char = "U+00A0" -> "NO-BREAK SPACE"
      [] char = "U+2060" -> "WORD JOINER"
      [] char = "U+FEFF" -> "ZERO WIDTH NO-BREAK SPACE"
      [] char = "U+2014" -> "EM DASH"
      [] char = "U+2013" -> "EN DASH"
      [] OTHER -> "Unknown"

\* one entry per match of unicode_pattern.finditer(text), in text order
RECURSIVE find_invisible(_)
find_invisible(text) ==
    IF text = <<>> THEN <<>>
    ELSE (IF Head(text) \in unicode_pattern
          THEN <<[char |-> Head(text), name |-> unicode_name(Head(text))]>>
          ELSE <<>>)
         \o find_invisible(Tail(text))

lower(c) == IF c = "A" THEN "a" ELSE c

\* re.findall(r'\b\w+\b', text.lower()): the maximal runs of word characters
RECURSIVE find_words(_)
find_words(text) ==
    IF text = <<>> THEN <<>>
    ELSE IF IsWord(lower(Head(text)))
         THEN LET rest == DropRun(word_class, text)
                  n == Len(text) - Len(rest)
              IN <<[i \in 1..n |-> lower(text[i])]>> \o find_words(rest)
         ELSE find_words(Tail(text))

\* invisible_chars[:10]
first_details(invisible_chars) ==
    SubSeq(invisible_chars, 1,
           IF Len(invisible_chars) < MaxDetails THEN Len(invisible_chars)
           ELSE MaxDetails)

\* the stats dict of a text without words: the Counter is empty, so
\* top_words is empty and the entropy is the literal 0, below the threshold
stats_of(invisible_chars) ==
    [invisible_chars |-> Len(invisible_chars),
     details |-> first_details(invisible_chars),
     word_entropy |-> 0,
     ai_likelihood |-> "High",
     top_words |-> <<>>]

-----------------------------------------------------------------------------
(* The inputs drawn by the specifications *)

\* all texts of at most n characters of alphabet
TextsOver(alphabet, n) == UNION {[1..k -> alphabet] : k \in 0..n}

\* what the user types or loads in the interactive specification
EditTexts == {<<"a", TAB>>, <<TAB>>, <<"b", "U+200B">>}

\* the texts handed to the cleaning rules
CleanAlphabet == {"a", SPACE, TAB, NL, "U+00A0"}

CleanTexts == TextsOver(CleanAlphabet, MaxLen)

\* the texts handed to the renderer: every character class of the source
RenderAlphabet == unicode_pattern \cup {SPACE, TAB, NL, "a"}

RenderTexts == TextsOver(RenderAlphabet, MaxRender)

\* the texts handed to the scan, and some long enough to pass the detail cap
ScanAlphabet == {"a", "A", SPACE, "U+200B", "U+202F"}

ScanTexts ==
    TextsOver(ScanAlphabet, MaxLen)
    \cup {[i \in 1..(MaxDetails + 1) |-> c] : c \in {"U+200B", "U+2014"}}
    \cup {[i \in 1..(MaxDetails + 2) |-> IF i = 1 THEN SPACE ELSE "U+FEFF"]}

\* the two presets of set_preset_regex
ChatGPTPreset == <<"[", "U+202F", "U+200B", "U+FEFF", "]">>

AllInvisiblePreset ==
    <<"[", "U+200B", "U+200C", "U+200D", "U+202F", "U+00A0", "U+2060",
      "U+FEFF", "U+2014", "U+2013", "]">>

NoOptions ==
    [remove_spaces |-> FALSE, remove_tabs |-> FALSE, replace_tabs |-> FALSE,
     tab_spaces |-> 2, remove_newlines |-> FALSE, trim_lines |-> FALSE,
     remove_invisible |-> FALSE, regex_input |-> <<>>, regex_replace |-> <<>>]

\* every combination of the check boxes, with the combo box read only when
\* replace_tabs is checked, and three states of the regex line edits
AllOptions ==
    {o \in [remove_spaces : BOOLEAN, remove_tabs : BOOLEAN,
            replace_tabs : BOOLEAN, tab_spaces : {2, 4, 8},
            remove_newlines : BOOLEAN, trim_lines : BOOLEAN,
            remove_invisible : BOOLEAN,
            regex_input : {<<>>, AllInvisiblePreset, <<"a", "[", "]">>},
            regex_replace : {<<>>, <<SPACE>>}] :
        /\ (~o.replace_tabs => o.tab_spaces = 2)
        /\ (o.regex_replace = <<SPACE>> <=> o.regex_input = AllInvisiblePreset)}

\* the widget states the user sets in the interactive specification
EditOptions ==
    {NoOptions,
     [NoOptions EXCEPT !.remove_tabs = TRUE],
     [NoOptions EXCEPT !.regex_input = <<"[">>],
     [NoOptions EXCEPT !.regex_input = ChatGPTPreset,
                       !.regex_replace = <<SPACE>>],
     [NoOptions EXCEPT !.regex_input = <<"a", TAB>>,
                       !.regex_replace = <<"b">>]}

-----------------------------------------------------------------------------
(* State *)

\* thread.pc: "none" before the first scan, "started" by QThread.start(),
\* "scanned" with the two lists computed, "returned" once run() has emitted
\* finished and returned, "raised" when an exception left run(), "destroyed"
\* when the QThread object was dropped while its thread was running.
\* thread.emitted counts the finished.emit() calls of this thread.
NoThread == [pc |-> "none", text |-> <<>>, invisible_chars |-> <<>>,
             words |-> <<>>, emitted |-> 0, stats |-> <<>>]

NoReport == [shown |-> FALSE]

NothingUndone == [text |-> <<>>, after |-> "init"]

\* the process is alive: no unhandled exception has left run() and no
\* running QThread object has been destroyed (either ends in qFatal)
Alive == thread.pc \notin {"raised", "destroyed"}

\* WhitespaceCleaner.__init__
Init ==
    /\ input_text = <<>>
    /\ output_text = <<>>
    /\ stats_label = label(<<>>)
    /\ status_bar = "Ready"
    /\ detailed_stats = NoReport
    /\ progress_bar = FALSE
    /\ options = NoOptions
    /\ history = <<>>
    /\ history_index = -1
    /\ thread = NoThread
    /\ queue = <<>>
    /\ event = "init"
    /\ undone = NothingUndone

\* what detect_whitespace() leaves in the output area and the status bar
\* when called with the buffer holding text
detected(text, out, status) ==
    IF text = <<>> THEN [output_text |-> out, status_bar |-> status]
    ELSE [output_text |-> visible_text(text),
          status_bar |-> "Whitespace and watermarks detected"]

\* the user types, pastes or deletes in the input area (textChanged runs
\* update_stats)
edit_text ==
    \E text \in EditTexts \cup {<<>>} :
        /\ Alive
        /\ text # input_text
        /\ input_text' = text
        /\ stats_label' = label(text)
        /\ status_bar' = "Statistics updated"
        /\ event' = "edit"
        /\ UNCHANGED <<output_text, detailed_stats, progress_bar, options,
                       history, history_index, thread, queue, undone>>

\* the user changes check boxes, the combo box or the regex line edits
set_options ==
    \E o \in EditOptions :
        /\ Alive
        /\ o # options
        /\ options' = o
        /\ event' = "options"
        /\ UNCHANGED <<input_text, output_text, stats_label, status_bar,
                       detailed_stats, progress_bar, history, history_index,
                       thread, queue, undone>>

detect_whitespace ==
    /\ Alive
    /\ LET d == detected(input_text, output_text, status_bar)
       IN /\ output_text' = d.output_text
          /\ status_bar' = d.status_bar
    /\ event' = IF input_text = <<>> THEN "detect:empty" ELSE "detect"
    /\ UNCHANGED <<input_text, stats_label, detailed_stats, progress_bar,
                   options, history, history_index, thread, queue, undone>>

clean_whitespace ==
    /\ Alive
    /\ IF input_text = <<>>
       THEN /\ event' = "clean:empty"
            /\ UNCHANGED <<input_text, output_text, stats_label, status_bar,
                           history, history_index>>
       ELSE LET original_text == input_text
                r == custom_regex(standard_cleaning(input_text, options), options)
            IN IF r.error
               THEN /\ event' = "clean:invalid"
                    /\ UNCHANGED <<input_text, output_text, stats_label,
                                   status_bar, history, history_index>>
               ELSE /\ history' = save_to_history(history, history_index,
                                                  original_text)
                    /\ history_index' = recorded_index(history_index)
                    /\ input_text' = r.text
                    /\ output_text' =
                           detected(r.text, output_text, status_bar).output_text
                    /\ stats_label' = label(r.text)
                    /\ status_bar' = "Whitespace and watermarks cleaned"
                    /\ event' = "clean"
    /\ UNCHANGED <<detailed_stats, progress_bar, options, thread, queue, undone>>

undo ==
    /\ Alive
    /\ IF can_undo(history_index)
       THEN /\ history_index' = history_index - 1
            /\ input_text' = entry(history, history_index')
            /\ undone' = [text |-> input_text, after |-> event]
            /\ output_text' =
                   detected(input_text', output_text, status_bar).output_text
            /\ stats_label' = label(input_text')
            /\ status_bar' = "Undo applied"
            /\ event' = "undo"
       ELSE /\ event' = "undo:noop"
            /\ UNCHANGED <<input_text, output_text, stats_label, status_bar,
                           history_index, undone>>
    /\ UNCHANGED <<detailed_stats, progress_bar, options, history, thread, queue>>

redo ==
    /\ Alive
    /\ IF can_redo(history, history_index)
       THEN /\ history_index' = history_index + 1
            /\ input_text' = entry(history, history_index')
            /\ output_text' =
                   detected(input_text', output_text, status_bar).output_text
            /\ stats_label' = label(input_text')
            /\ status_bar' = "Redo applied"
            /\ event' = "redo"
       ELSE /\ event' = "redo:noop"
            /\ UNCHANGED <<input_text, output_text, stats_label, status_bar,
                           history_index>>
    /\ UNCHANGED <<detailed_stats, progress_bar, options, history, thread, queue,
                   undone>>

clear_text ==
    /\ Alive
    /\ input_text' = <<>>
    /\ output_text' = <<>>
    /\ detailed_stats' = NoReport
    /\ history' = <<>>
    /\ history_index' = -1
    /\ stats_label' = label(<<>>)
    /\ status_bar' = "Cleared"
    /\ event' = "clear"
    /\ UNCHANGED <<progress_bar, options, thread, queue, undone>>

\* the interactive specification: the handlers of the main thread, with the
\* history capped at MaxHist entries
Next ==
    \/ edit_text
    \/ set_options
    \/ detect_whitespace
    \/ (history_index + 2 <= MaxHist /\ clean_whitespace)
    \/ undo
    \/ redo
    \/ clear_text

Spec == Init /\ [][Next]_vars

-----------------------------------------------------------------------------
(* The watermark scan *)

\* WatermarkScanThread(text) followed by start()
started(text) == [NoThread EXCEPT !.pc = "started", !.text = text]

\* scan_watermarks. Rebinding self.thread drops the previous QThread object:
\* one whose thread is still running is destroyed while running, and one
\* whose run() has returned may or may not have finished by then.
scan_watermarks ==
    /\ Alive
    /\ IF input_text = <<>>
       THEN /\ event' = "scan:empty"
            /\ UNCHANGED <<progress_bar, thread>>
       ELSE /\ progress_bar' = TRUE
            /\ event' = "scan"
            /\ \/ /\ thread.pc \in {"none", "returned"}
                  /\ thread' = started(input_text)
               \/ /\ thread.pc \in {"started", "scanned", "returned"}
                  /\ thread' = [thread EXCEPT !.pc = "destroyed"]
    /\ UNCHANGED <<input_text, output_text, stats_label, status_bar,
                   detailed_stats, options, history, history_index, queue,
                   undone>>

\* run(), first half: the finditer loop and the word list
run_scan ==
    /\ thread.pc = "started"
    /\ thread' = [thread EXCEPT !.pc = "scanned",
                                !.invisible_chars = find_invisible(thread.text),
                                !.words = find_words(thread.text)]
    /\ UNCHANGED <<input_text, output_text, stats_label, status_bar,
                   detailed_stats, progress_bar, options, history,
                   history_index, queue, event, undone>>

\* run(), second half. With at least one word the entropy expression calls
\* re.log2, which the re module does not have: AttributeError leaves run()
\* before stats is built. Without words the stats are built and emitted.
run_stats ==
    /\ thread.pc = "scanned"
    /\ IF thread.words # <<>>
       THEN /\ thread' = [thread EXCEPT !.pc = "raised"]
            /\ UNCHANGED queue
       ELSE LET stats == stats_of(thread.invisible_chars)
            IN /\ thread' = [thread EXCEPT !.pc = "returned", !.stats = stats,
                                           !.emitted = thread.emitted + 1]
               /\ queue' = Append(queue, stats)
    /\ UNCHANGED <<input_text, output_text, stats_label, status_bar,
                   detailed_stats, progress_bar, options, history,
                   history_index, event, undone>>

\* on_scan_finished, run by the main thread for the oldest queued emission.
\* The label never holds a "?", so its replace() changes nothing.
on_scan_finished ==
    /\ Alive
    /\ queue # <<>>
    /\ LET stats == Head(queue)
       IN /\ progress_bar' = FALSE
          /\ detailed_stats' =
                 [shown |-> TRUE,
                  invisible_chars |-> stats.invisible_chars,
                  details |-> stats.details,
                  ai_likelihood |-> stats.ai_likelihood,
                  word_entropy |-> stats.word_entropy,
                  top_words |-> SubSeq(stats.top_words, 1, 0)]
          /\ status_bar' = "Watermark scan complete"
    /\ queue' = Tail(queue)
    /\ event' = "scan_finished"
    /\ UNCHANGED <<input_text, output_text, stats_label, options, history,
                   history_index, thread, undone>>

-----------------------------------------------------------------------------
(* Specifications that draw the input of one operation *)

\* a fresh window into which the user has typed text and set the options o
Typed(text, o) ==
    /\ input_text = text
    /\ output_text = <<>>
    /\ stats_label = label(text)
    /\ status_bar = "Statistics updated"
    /\ detailed_stats = NoReport
    /\ progress_bar = FALSE
    /\ options = o
    /\ history = <<>>
    /\ history_index = -1
    /\ thread = NoThread
    /\ queue = <<>>
    /\ event = "edit"
    /\ undone = NothingUndone

\* the window after two cleans without options, of "a" TAB and then of "b", an
\* undo when at_first, and the user then typing text and setting the options o
TypedAfterTwoCleans(text, o, at_first) ==
    /\ input_text = text
    /\ output_text = visible_text(IF at_first THEN <<"a", TAB>> ELSE <<"b">>)
    /\ stats_label = label(text)
    /\ status_bar = "Statistics updated"
    /\ detailed_stats = NoReport
    /\ progress_bar = FALSE
    /\ options = o
    /\ history = << <<"a", TAB>>, <<"b">> >>
    /\ history_index = IF at_first THEN 0 ELSE 1
    /\ thread = NoThread
    /\ queue = <<>>
    /\ event = "edit"
    /\ undone = IF at_first THEN [text |-> <<"b">>, after |-> "clean"]
                ELSE NothingUndone

InitClean ==
    \E text \in CleanTexts, o \in AllOptions :
        \/ Typed(text, o)
        \/ \E at_first \in BOOLEAN : TypedAfterTwoCleans(text, o, at_first)

\* one clean of the text drawn
NextClean == event = "edit" /\ clean_whitespace

SpecClean == InitClean /\ [][NextClean]_vars

InitRender == \E text \in RenderTexts : Typed(text, NoOptions)

NextRender == detect_whitespace

SpecRender == InitRender /\ [][NextRender]_vars

InitScan == \E text \in ScanTexts : Typed(text, NoOptions)

NextScan ==
    \/ (Len(queue) < MaxQueue /\ scan_watermarks)
    \/ run_scan
    \/ run_stats
    \/ on_scan_finished

SpecScan == InitScan /\ [][NextScan]_vars

-----------------------------------------------------------------------------
(* Claims *)

\* the WatermarkReferenceSet of the specification
WatermarkReferenceSet ==
    {"U+200B", "U+200C", "U+200D", "U+202F", "U+00A0", "U+2060", "U+FEFF",
     "U+2014", "U+2013"}

CleanEvents == {"clean", "clean:empty", "clean:invalid"}

PatternFailsToCompile(pattern) == pattern # <<>> /\ compile(pattern).error

HasTab(text) == \E i \in 1..Len(text) : text[i] = TAB

\* C1: a clean of a non-empty buffer whose custom pattern does not compile
\* leaves the buffer, the history entries and the history cursor as they were.
C1_InvalidPatternAbortsAtomically ==
    [][(/\ event' \in CleanEvents
        /\ input_text # <<>>
        /\ PatternFailsToCompile(options.regex_input))
       => /\ input_text' = input_text
          /\ history' = history
          /\ history_index' = history_index]_vars

\* C1 witness: an aborted clean of a text with a tab, remove_tabs checked and
\* a history with entries: rules 1-6 had output that was not applied.
C1_Witness ==
    /\ event = "clean:invalid"
    /\ options.remove_tabs
    /\ HasTab(input_text)
    /\ Len(history) = 2
    /\ history_index = 0

\* C2: right after a successful clean of T, undo sets the buffer back to T
\* (T is the entry that clean appended, the last of the history).
C2_UndoRestoresPreCleanText ==
    [][(event = "clean" /\ event' \in {"undo", "undo:noop"})
       => input_text' = history[Len(history)]]_vars

\* C3: the cursor is within -1 .. length-1 and is -1 exactly when the history
\* is empty, so the entry undo or redo reads exists.
C3_CursorInRange ==
    /\ history_index \in -1..(Len(history) - 1)
    /\ (history_index = -1 <=> history = <<>>)
    /\ (can_undo(history_index) => history_index - 1 \in 0..(Len(history) - 1))
    /\ (can_redo(history, history_index)
           => history_index + 1 \in 0..(Len(history) - 1))

\* C3 witness: an undo has moved the cursor to the first of several entries.
C3_Witness ==
    /\ event = "undo"
    /\ history_index = 0
    /\ Len(history) >= 2

C5_RecordDiscardsRedoBranch ==
    [][/\ (event' = "clean")
          => /\ history' = SubSeq(history, 1, history_index + 1) \o <<input_text>>
             /\ history_index' = Len(history') - 1
       /\ (event = "clean" /\ event' \in {"redo", "redo:noop"})
          => /\ input_text' = input_text
             /\ history' = history
             /\ history_index' = history_index]_vars

\* C5 witness: a redo found nothing to redo while the status bar still shows
\* the clean, the buffer being the cleaned text and not the recorded one.
C5_Witness ==
    /\ event = "redo:noop"
    /\ status_bar = "Whitespace and watermarks cleaned"
    /\ Len(history) = 2
    /\ history_index = 1
    /\ input_text # history[2]

\* C6: a scan whose run() has come to its end has emitted its report once.
C6_ScanDeliversOnce ==
    thread.pc \in {"returned", "raised"} => thread.emitted = 1

RefCount(text) ==
    Cardinality({i \in 1..Len(text) : text[i] \in WatermarkReferenceSet})

\* the k-th code point of text that is in the WatermarkReferenceSet
RECURSIVE Occurrence(_, _)
Occurrence(text, k) ==
    IF Head(text) \in WatermarkReferenceSet
    THEN IF k = 1 THEN Head(text) ELSE Occurrence(Tail(text), k - 1)
    ELSE Occurrence(Tail(text), k)

\* C8: for every text scanned, the report's count is the number of code
\* points of the text in the WatermarkReferenceSet and its details are the
\* first min(10, count) occurrences in text order.
C8_ScanCountsReferenceSet ==
    thread.pc \in {"returned", "raised"}
    => /\ thread.emitted = 1
       /\ thread.stats.invisible_chars = RefCount(thread.text)
       /\ LET n == IF RefCount(thread.text) < 10 THEN RefCount(thread.text)
                   ELSE 10
          IN /\ Len(thread.stats.details) = n
             /\ \A k \in 1..n :
                    thread.stats.details[k].char = Occurrence(thread.text, k)

\* the rendering of one character as the specification lists it
Glyphs(c) ==
    IF c = SPACE THEN <<MIDDLE_DOT>>
    ELSE IF c = TAB THEN <<RIGHT_ARROW>>
    ELSE IF c = NL THEN <<PILCROW, NL>>
    ELSE IF c = "U+202F" THEN <<REFERENCE_MARK>>
    ELSE IF c \in WatermarkReferenceSet THEN <<DIAMOND>>
    ELSE <<c>>

RECURSIVE Rendering(_)
Rendering(text) ==
    IF text = <<>> THEN <<>> ELSE Glyphs(Head(text)) \o Rendering(Tail(text))

\* C7: the rendered text maps every code point of the WatermarkReferenceSet
\* to a marker (U+202F to the reference mark, the others to the diamond), the
\* three whitespace characters to their markers and leaves the rest, so no
\* code point of the set is left in it.
C7_RenderMarksEveryCandidate ==
    event = "detect"
    => /\ output_text = Rendering(input_text)
       /\ \A i \in 1..Len(output_text) :
              output_text[i] \notin WatermarkReferenceSet

\* C9: with remove_tabs and replace_tabs both checked, the cleaned text is
\* the one remove_tabs alone gives, and with nothing else checked it is the
\* text with its tabs deleted.
C9_StripTabsBeforeExpandTabs ==
    (event = "clean" /\ options.remove_tabs /\ options.replace_tabs)
    => LET original_text == history[Len(history)]
           alone == [options EXCEPT !.replace_tabs = FALSE]
       IN /\ input_text =
                 custom_regex(standard_cleaning(original_text, alone), alone).text
          /\ (/\ ~options.remove_spaces
              /\ ~options.remove_newlines
              /\ ~options.trim_lines
              /\ ~options.remove_invisible
              /\ options.regex_input = <<>>)
             => input_text = SelectSeq(original_text, LAMBDA c : c # TAB)

\* C9 witness: "a" TAB TAB cleaned with remove_tabs and replace_tabs (4) gave "a".
C9_Witness ==
    /\ event = "clean"
    /\ options.remove_tabs
    /\ options.replace_tabs
    /\ options.tab_spaces = 4
    /\ history[Len(history)] = <<"a", TAB, TAB>>
    /\ input_text = <<"a">>

\* C10: an undo that takes effect followed by redo leaves the buffer as it
\* was before the undo; stated for the undo that comes right after a
\* successful clean, whose buffer is the most recently cleaned text.
C10_UndoRedoRoundTrip ==
    [][(/\ event = "undo"
        /\ undone.after = "clean"
        /\ event' \in {"redo", "redo:noop"})
       => input_text' = undone.text]_vars

====
